---- MODULE Spec2Model ----
(***************************************************************************)
(* Chat-bott/backend: the chat relay's processMessage.                     *)
(*                                                                         *)
(* Two implementations of processMessage live in the repository:           *)
(*   - src/unnamed/part_000            (deterministic fill intents,        *)
(*     allow-listed action tags, reconciler);                              *)
(*   - src/services/geminiService.js   (the service the HTTP layer of the  *)
(*     same file requires; its definitions carry the prefix Svc).          *)
(*                                                                         *)
(* Text is modelled as a sequence of atoms.  An atom is a run of           *)
(* characters that every regular expression of the source either consumes  *)
(* whole or not at all ("[ACTION:", "]", "{", a word, a blank, ...); a     *)
(* text is the concatenation of its atoms, and every string (a field name, *)
(* a value, a section id, a display text) is the sequence of its atoms:    *)
(* "name" is <<"name">>, the empty string is <<>>.  The regular            *)
(* expressions of the source are matchers over atom sequences.             *)
(***************************************************************************)
EXTENDS Integers, Sequences, FiniteSets, TLC

\* ------------------------------------------------------------------ bounds
MaxUserPieces == 4
MaxReplySegs == 3
MaxHistory == 8
MaxSvcReplySegs == 2

\* ------------------------------------------------------- sequence helpers
RECURSIVE SeqConcat(_)
SeqConcat(ss) ==
  IF ss = <<>> THEN <<>> ELSE Head(ss) \o SeqConcat(Tail(ss))

SeqsUpTo(S, n) == UNION {[1..k -> S] : k \in 0..n}

Drop(s, n) ==
  IF n <= 0 THEN s ELSE IF n >= Len(s) THEN <<>> ELSE SubSeq(s, n + 1, Len(s))

\* ------------------------------------------------------------ characters
\* \s of the regular expressions
IsSpace(a) == a \in {" ", "\n"}

\* atoms made of characters outside \w (for \b)
NonWordAtoms ==
  {" ", "\n", ",", ":", "-", ".", "=", "[ACTION:", "]", "{", "}"}

IsWord(a) == a \notin NonWordAtoms

\* String.prototype.toLowerCase on the atoms that carry upper-case letters
ToLower(a) ==
  CASE a = "FILL" -> "fill"
    [] a = "Set" -> "set"
    [] a = "NAME" -> "name"
    [] a = "EMAIL" -> "email"
    [] a = "Message" -> "message"
    [] a = "TO" -> "to"
    [] a = "Projects" -> "projects"
    [] a = "HOME" -> "home"
    [] a = "Down" -> "down"
    [] a = "Password" -> "password"
    [] OTHER -> a

\* String.prototype.trim
RECURSIVE TrimLeft(_)
TrimLeft(s) ==
  IF s # <<>> /\ IsSpace(Head(s)) THEN TrimLeft(Tail(s)) ELSE s

RECURSIVE TrimRight(_)
TrimRight(s) ==
  IF s # <<>> /\ IsSpace(s[Len(s)]) THEN TrimRight(SubSeq(s, 1, Len(s) - 1)) ELSE s

Trim(s) == TrimRight(TrimLeft(s))

\* ------------------------------------------------- parseFillFromUser
TriggerVerbs == {"fill", "add", "set"}
TriggerFields == {"name", "email", "message", "search"}
TriggerConnectors == {"as", "to", "="}

\* \s* from position i: the first position that is not white space
RECURSIVE SkipSpace(_, _)
SkipSpace(t, i) ==
  IF i <= Len(t) /\ IsSpace(t[i]) THEN SkipSpace(t, i + 1) ELSE i

\* (?:field)? , case-insensitive
SkipFieldWord(t, i) ==
  IF i <= Len(t) /\ ToLower(t[i]) = "field" THEN i + 1 ELSE i

\* (?:as|to|=)? , case-insensitive
SkipConnector(t, i) ==
  IF i <= Len(t) /\ ToLower(t[i]) \in TriggerConnectors THEN i + 1 ELSE i

\* The trigger expression
\*   /\b(?:fill|add|set)\s+(name|email|message|search)\s*(?:field)?\s*(?:as|to|=)?\s*/gi
\* tried at position i: 0 when it does not match there, else re.lastIndex
\* (the position after the match).
TriggerEnd(t, i) ==
  LET f == SkipSpace(t, i + 1) IN
  IF /\ i <= Len(t)
     /\ (i = 1 \/ ~IsWord(t[i - 1]))
     /\ ToLower(t[i]) \in TriggerVerbs
     /\ f > i + 1
     /\ f <= Len(t)
     /\ ToLower(t[f]) \in TriggerFields
  THEN SkipSpace(t, SkipConnector(t, SkipSpace(t, SkipFieldWord(t, SkipSpace(t, f + 1)))))
  ELSE 0

\* while ((m = re.exec(t)) !== null) hits.push(...), from lastIndex from
RECURSIVE TriggerHits(_, _)
TriggerHits(t, from) ==
  IF from > Len(t) THEN <<>>
  ELSE IF TriggerEnd(t, from) = 0 THEN TriggerHits(t, from + 1)
  ELSE LET e == TriggerEnd(t, from)
           f == SkipSpace(t, from + 1)
       IN <<[field |-> <<ToLower(t[f])>>, matchIndex |-> from, valueStart |-> e]>>
            \o TriggerHits(t, e)

\* value.replace(/^[,:-]\s*/, "")
StripLeadingSeparator(v) ==
  IF v # <<>> /\ Head(v) \in {",", ":", "-"} THEN TrimLeft(Tail(v)) ELSE v

\* value.replace(/[,\s]+$/, "")
RECURSIVE StripTrailing(_)
StripTrailing(v) ==
  IF v # <<>> /\ (IsSpace(v[Len(v)]) \/ v[Len(v)] = ",")
  THEN StripTrailing(SubSeq(v, 1, Len(v) - 1))
  ELSE v

\* the value of hit i: the text up to the next hit (or the end), cleaned
HitValue(t, hits, i) ==
  LET start == hits[i].valueStart
      end == IF i + 1 <= Len(hits) THEN hits[i + 1].matchIndex ELSE Len(t) + 1
  IN StripTrailing(StripLeadingSeparator(Trim(SubSeq(t, start, end - 1))))

\* for (...) if (value) out.push({field, value})
RECURSIVE FillCandidates(_, _, _)
FillCandidates(t, hits, i) ==
  IF i > Len(hits) THEN <<>>
  ELSE (IF HitValue(t, hits, i) # <<>>
        THEN <<[field |-> hits[i].field, value |-> HitValue(t, hits, i)]>>
        ELSE <<>>)
       \o FillCandidates(t, hits, i + 1)

\* faulty variant: the first value of a field is kept
RECURSIVE DedupFirstWins(_, _)
DedupFirstWins(out, final) ==
  IF out = <<>> THEN final
  ELSE LET x == Head(out) IN
       DedupFirstWins(
         Tail(out),
         IF \E k \in 1..Len(final) : final[k].field = x.field THEN final ELSE Append(final, x))

\* const final = {}; for (const x of out) final[x.field] = x.value;
\* an object as the sequence of its entries, in insertion order of the keys
RECURSIVE DedupLastWins(_, _)
DedupLastWins(out, final) ==
  IF out = <<>> THEN final
  ELSE LET x == Head(out)
           at == {k \in 1..Len(final) : final[k].field = x.field}
       IN DedupLastWins(
            Tail(out),
            IF at = {} THEN Append(final, x)
            ELSE [k \in 1..Len(final) |->
                    IF k \in at THEN [final[k] EXCEPT !.value = x.value] ELSE final[k]])

parseFillFromUser(text) ==
  LET t == Trim(text) IN
  IF t = <<>> THEN <<>>
  ELSE DedupLastWins(FillCandidates(t, TriggerHits(t, 1), 1), <<>>)

\* ------------------------------------------------- history (both files)
HistoryWindow == 6

\* faulty variant: the whole log is taken
RecentHistoryAll(conversationHistory) == conversationHistory

\* conversationHistory.slice(-6)
RecentHistory(conversationHistory) ==
  Drop(conversationHistory, Len(conversationHistory) - HistoryWindow)

\* recentHistory.map(msg => ({role: ..., parts: [{text: msg.content}]}))
GeminiHistory(recentHistory) ==
  [i \in 1..Len(recentHistory) |->
     [role |-> IF recentHistory[i].role = "assistant" THEN "model" ELSE "user",
      parts |-> <<[text |-> recentHistory[i].content]>>]]

\* while (startIndex < length && geminiHistory[startIndex].role === "model") startIndex++
RECURSIVE StartIndex(_, _)
StartIndex(geminiHistory, startIndex) ==
  IF startIndex < Len(geminiHistory) /\ geminiHistory[startIndex + 1].role = "model"
  THEN StartIndex(geminiHistory, startIndex + 1)
  ELSE startIndex

\* the loop that pushes a turn when its role differs from the last pushed one
RECURSIVE CleanHistory(_, _)
CleanHistory(history, cleanedHistory) ==
  IF history = <<>> THEN cleanedHistory
  ELSE LET current == Head(history) IN
       CleanHistory(
         Tail(history),
         IF cleanedHistory = <<>> \/ cleanedHistory[Len(cleanedHistory)].role # current.role
         THEN Append(cleanedHistory, current)
         ELSE cleanedHistory)

\* let history = []; if (conversationHistory.length > 0) { ... }
BuildHistory(conversationHistory) ==
  IF Len(conversationHistory) > 0
  THEN LET geminiHistory == GeminiHistory(RecentHistory(conversationHistory))
       IN CleanHistory(Drop(geminiHistory, StartIndex(geminiHistory, 0)), <<>>)
  ELSE <<>>

\* ------------------------------------------------- action tags, part_000
TagOpen == "[ACTION:"
TagClose == "]"
Quote == "\""
KeyField == "\"field\":"
KeySelector == "\"selector\":"
KeyValue == "\"value\":"

\* atoms that are runs of [a-zA-Z0-9_-] characters
IdRuns ==
  {"home", "HOME", "about", "projects", "Projects", "contact", "unknown_id",
   "up", "down", "Down", "top", "bottom", "sideways", "to-top",
   "name", "NAME", "email", "message", "search", "Password",
   "Sure", "Bob", "Al", "x", "y", "a", "b"}

allowedSections == {<<"home">>, <<"about">>, <<"projects">>, <<"contact">>}
allowedDirections == {<<"up">>, <<"down">>, <<"top">>, <<"bottom">>}
allowedFields == {<<"name">>, <<"email">>, <<"message">>, <<"search">>}

\* String(x).toLowerCase()
LowerStr(s) == [i \in 1..Len(s) |-> ToLower(s[i])]

\* ([a-zA-Z0-9_-]+) from position i: the position after the greedy run
RECURSIVE SkipIdRun(_, _)
SkipIdRun(raw, i) ==
  IF i <= Len(raw) /\ raw[i] \in IdRuns THEN SkipIdRun(raw, i + 1) ELSE i

\* /\[ACTION:<type>([a-zA-Z0-9_-]+)\]/ tried at position i: 0, or the
\* position after the match
IdTagEnd(raw, type, i) ==
  LET e == SkipIdRun(raw, i + 2) IN
  IF /\ i + 3 <= Len(raw)
     /\ raw[i] = TagOpen
     /\ raw[i + 1] = type
     /\ e > i + 2
     /\ e <= Len(raw)
     /\ raw[e] = TagClose
  THEN e + 1
  ELSE 0

\* while ((m = re.exec(rawText)) !== null): the captured m[1] of every match
RECURSIVE IdTagCaptures(_, _, _)
IdTagCaptures(raw, type, from) ==
  IF from > Len(raw) THEN <<>>
  ELSE IF IdTagEnd(raw, type, from) = 0 THEN IdTagCaptures(raw, type, from + 1)
  ELSE LET e == IdTagEnd(raw, type, from) IN
       <<SubSeq(raw, from + 2, e - 2)>> \o IdTagCaptures(raw, type, e)

\* faulty variant: the section id is not checked against the allow-list
RECURSIVE SectionActionsUnchecked(_)
SectionActionsUnchecked(captures) ==
  IF captures = <<>> THEN <<>>
  ELSE <<[type |-> "scroll_to_section", data |-> [sectionId |-> LowerStr(Head(captures))]]>>
         \o SectionActionsUnchecked(Tail(captures))

\* the sectionRe loop
RECURSIVE SectionActions(_)
SectionActions(captures) ==
  IF captures = <<>> THEN <<>>
  ELSE LET sectionId == LowerStr(Head(captures)) IN
       (IF sectionId \in allowedSections
        THEN <<[type |-> "scroll_to_section", data |-> [sectionId |-> sectionId]]>>
        ELSE <<>>)
       \o SectionActions(Tail(captures))

\* the pageRe loop
RECURSIVE PageActions(_)
PageActions(captures) ==
  IF captures = <<>> THEN <<>>
  ELSE LET direction == LowerStr(Head(captures)) IN
       (IF direction \in allowedDirections
        THEN <<[type |-> "scroll_page", data |-> [direction |-> direction]]>>
        ELSE <<>>)
       \o PageActions(Tail(captures))

\* \{.*?\}\] after the "{" at position i - 1: the position j of the first "}"
\* that "]" follows, no line break before it; 0 when there is none
RECURSIVE LazyBraceEnd(_, _)
LazyBraceEnd(raw, j) ==
  IF j + 1 > Len(raw) THEN 0
  ELSE IF raw[j] = "}" /\ raw[j + 1] = TagClose THEN j
  ELSE IF raw[j] = "\n" THEN 0
  ELSE LazyBraceEnd(raw, j + 1)

\* /\[ACTION:fill_input:(\{.*?\})\]/ tried at position i: 0, or the position
\* of the closing "}" of the capture
FillTagBrace(raw, i) ==
  IF /\ i + 4 <= Len(raw)
     /\ raw[i] = TagOpen
     /\ raw[i + 1] = "fill_input:"
     /\ raw[i + 2] = "{"
  THEN LazyBraceEnd(raw, i + 3)
  ELSE 0

RECURSIVE FillTagCaptures(_, _)
FillTagCaptures(raw, from) ==
  IF from > Len(raw) THEN <<>>
  ELSE IF FillTagBrace(raw, from) = 0 THEN FillTagCaptures(raw, from + 1)
  ELSE LET j == FillTagBrace(raw, from) IN
       <<SubSeq(raw, from + 2, j)>> \o FillTagCaptures(raw, j + 2)

\* ------------------------------------------------- JSON.parse of a capture
\* The payloads are objects whose members are string-valued: a member is a
\* key atom, then a string literal (Quote, the content, Quote).  The object
\* read so far is [field, selector, value]; an absent member is <<>>, which
\* the code does not tell from the empty string (obj?.field ? ... : "",
\* obj?.value ?? "").  A text that is no such object makes JSON.parse throw.
JsonError == [ok |-> FALSE, field |-> <<>>, selector |-> <<>>, value |-> <<>>]

\* the position of the Quote closing a string literal opened before i; 0 when
\* the literal does not end (or a raw line break is in it)
RECURSIVE ClosingQuote(_, _)
ClosingQuote(c, i) ==
  IF i > Len(c) THEN 0
  ELSE IF c[i] = Quote THEN i
  ELSE IF c[i] = "\n" THEN 0
  ELSE ClosingQuote(c, i + 1)

RECURSIVE JsonMembers(_, _, _)
JsonMembers(c, i, obj) ==
  LET q == SkipSpace(c, i + 1)
      e == ClosingQuote(c, q + 1)
      n == SkipSpace(c, e + 1)
      str == SubSeq(c, q + 1, e - 1)
      next == CASE c[i] = KeyField -> [obj EXCEPT !.field = str]
                [] c[i] = KeySelector -> [obj EXCEPT !.selector = str]
                [] OTHER -> [obj EXCEPT !.value = str]
  IN
  IF i > Len(c) \/ c[i] \notin {KeyField, KeySelector, KeyValue} THEN JsonError
  ELSE IF q > Len(c) \/ c[q] # Quote \/ e = 0 THEN JsonError
  ELSE IF n = Len(c) /\ c[n] = "}" THEN next
  ELSE IF n < Len(c) /\ c[n] = "," THEN JsonMembers(c, SkipSpace(c, n + 1), next)
  ELSE JsonError

JsonParse(c) ==
  LET empty == [ok |-> TRUE, field |-> <<>>, selector |-> <<>>, value |-> <<>>]
      i == SkipSpace(c, 2)
  IN
  IF Len(c) < 2 \/ c[1] # "{" THEN JsonError
  ELSE IF i = Len(c) /\ c[i] = "}" THEN empty
  ELSE JsonMembers(c, i, empty)

\* the fillRe loop: try { ... } catch {}
RECURSIVE FillActions(_)
FillActions(captures) ==
  IF captures = <<>> THEN <<>>
  ELSE LET obj == JsonParse(Head(captures))
           field == LowerStr(obj.field)
           selector == obj.selector
           value == obj.value
       IN (IF ~obj.ok THEN <<>>
           ELSE IF selector # <<>>
           THEN <<[type |-> "fill_input", data |-> [selector |-> selector, value |-> value]]>>
           ELSE IF field # <<>> /\ field \in allowedFields
           THEN <<[type |-> "fill_input", data |-> [field |-> field, value |-> value]]>>
           ELSE <<>>)
          \o FillActions(Tail(captures))

\* faulty variant: the fill tags are scanned first
ModelActionsFillFirst(rawText) ==
  FillActions(FillTagCaptures(rawText, 1))
    \o SectionActions(IdTagCaptures(rawText, "scroll_to_section:", 1))
    \o PageActions(IdTagCaptures(rawText, "scroll_page:", 1))

\* the actions extracted from the model's text, scanned type by type
ModelActions(rawText) ==
  SectionActions(IdTagCaptures(rawText, "scroll_to_section:", 1))
    \o PageActions(IdTagCaptures(rawText, "scroll_page:", 1))
    \o FillActions(FillTagCaptures(rawText, 1))

\* parseFillFromUser(userMessage).filter((x) => allowedFields.has(x.field))
ForcedFills(fills) == SelectSeq(fills, LAMBDA x : x.field \in allowedFields)

\* faulty variant: any fill_input action counts, whatever it fills
FillExistsAnyFill(actions, f) ==
  \E k \in 1..Len(actions) : actions[k].type = "fill_input"

\* actions.some((a) => a.type === "fill_input" && a.data?.field === f.field)
FillExists(actions, f) ==
  \E k \in 1..Len(actions) :
    /\ actions[k].type = "fill_input"
    /\ "field" \in DOMAIN actions[k].data
    /\ actions[k].data.field = f.field

\* merge (avoid duplicates)
RECURSIVE MergeForced(_, _)
MergeForced(actions, forcedFills) ==
  IF forcedFills = <<>> THEN actions
  ELSE LET f == Head(forcedFills) IN
       MergeForced(
         IF FillExists(actions, f)
         THEN actions
         ELSE Append(actions,
                     [type |-> "fill_input", data |-> [field |-> f.field, value |-> f.value]]),
         Tail(forcedFills))

\* /\[ACTION:[^\]]+\]/ tried at position i: 0, or the position of its "]"
RECURSIVE FirstClose(_, _)
FirstClose(raw, j) ==
  IF j > Len(raw) THEN 0
  ELSE IF raw[j] = TagClose THEN j
  ELSE FirstClose(raw, j + 1)

AnyTagClose(raw, i) ==
  IF raw[i] = TagOpen /\ FirstClose(raw, i + 1) > i + 1
  THEN FirstClose(raw, i + 1)
  ELSE 0

\* text.replace(/\[ACTION:[^\]]+\]/g, "")
RECURSIVE StripTags(_, _)
StripTags(raw, from) ==
  IF from > Len(raw) THEN <<>>
  ELSE IF AnyTagClose(raw, from) = 0 THEN <<raw[from]>> \o StripTags(raw, from + 1)
  ELSE StripTags(raw, AnyTagClose(raw, from) + 1)

\* forcedFills.map((x) => x.field).join(", ")
RECURSIVE JoinFields(_)
JoinFields(forcedFills) ==
  IF forcedFills = <<>> THEN <<>>
  ELSE IF Len(forcedFills) = 1 THEN Head(forcedFills).field
  ELSE Head(forcedFills).field \o <<", ">> \o JoinFields(Tail(forcedFills))

\* faulty variant: the confirmation replaces the model's text only when that is empty
DisplayTextKeepsModelText(rawText, forcedFills) ==
  IF Len(forcedFills) > 0 /\ Trim(StripTags(rawText, 1)) = <<>>
  THEN <<"Done. Filled: ">> \o JoinFields(forcedFills) \o <<".">>
  ELSE Trim(StripTags(rawText, 1))

\* the visible text
DisplayText(rawText, forcedFills) ==
  IF Len(forcedFills) > 0
  THEN <<"Done. Filled: ">> \o JoinFields(forcedFills) \o <<".">>
  ELSE Trim(StripTags(rawText, 1))

\* catch (error): `Error: ${error?.message || "Unknown error"}`
ErrorResult(error) ==
  [text |-> <<"Error: ">> \o (IF error.message # <<>> THEN error.message ELSE <<"Unknown error">>),
   actions |-> <<>>]

\* ------------------------------------------------- prompt and model client
\* getModel: the fallback model is taken when the first getGenerativeModel
\* call throws
getModel(flashThrows) == IF flashThrows THEN "gemini-pro" ELSE "gemini-2.5-flash"

NoSections == <<"N/A">>

\* the parts of systemPrompt that depend on the call
SystemPrompt(userMessage, pageContent) ==
  [sections |-> IF pageContent.present /\ pageContent.sections # <<>>
                THEN pageContent.sections ELSE NoSections,
   projects |-> IF pageContent.present THEN pageContent.projects ELSE 0,
   search |-> IF pageContent.present /\ pageContent.searchExists
              THEN "AVAILABLE (field: search)" ELSE "UNKNOWN/NOT FOUND",
   userMessage |-> userMessage]

\* ------------------------------------------------- services/geminiService.js
SvcSystemPrompt(userMessage, pageContent) ==
  [page |-> IF pageContent.present
            THEN [sections |-> IF pageContent.sections # <<>>
                               THEN pageContent.sections ELSE NoSections,
                  projects |-> pageContent.projects]
            ELSE [sections |-> <<>>, projects |-> 0],
   userMessage |-> userMessage]

\* atoms that are runs of \w characters
SvcWordRuns == IdRuns \ {"to-top"}

RECURSIVE SvcSkipWordRun(_, _)
SvcSkipWordRun(raw, i) ==
  IF i <= Len(raw) /\ raw[i] \in SvcWordRuns THEN SvcSkipWordRun(raw, i + 1) ELSE i

\* /\[ACTION:scroll_to_section:(\w+)\]/ tried at i: 0, or the position after
SvcSectionEnd(raw, i) ==
  LET e == SvcSkipWordRun(raw, i + 2) IN
  IF /\ i + 3 <= Len(raw)
     /\ raw[i] = TagOpen
     /\ raw[i + 1] = "scroll_to_section:"
     /\ e > i + 2
     /\ e <= Len(raw)
     /\ raw[e] = TagClose
  THEN e + 1
  ELSE 0

RECURSIVE SvcSectionActions(_, _)
SvcSectionActions(raw, from) ==
  IF from > Len(raw) THEN <<>>
  ELSE IF SvcSectionEnd(raw, from) = 0 THEN SvcSectionActions(raw, from + 1)
  ELSE LET e == SvcSectionEnd(raw, from) IN
       <<[type |-> "scroll_to_section", data |-> [sectionId |-> SubSeq(raw, from + 2, e - 2)]]>>
         \o SvcSectionActions(raw, e)

\* (.+?)\] from position j (one character is already taken): the position of
\* the first "]" with no line break before it; 0 when there is none
RECURSIVE SvcLazyClose(_, _)
SvcLazyClose(raw, j) ==
  IF j > Len(raw) THEN 0
  ELSE IF raw[j] = TagClose THEN j
  ELSE IF raw[j] = "\n" THEN 0
  ELSE SvcLazyClose(raw, j + 1)

\* /\[ACTION:<type>(.+?)\]/ tried at i: 0, or the position of the "]"
SvcTextTagClose(raw, type, i) ==
  IF /\ i + 3 <= Len(raw)
     /\ raw[i] = TagOpen
     /\ raw[i + 1] = type
     /\ raw[i + 2] # "\n"
  THEN SvcLazyClose(raw, i + 3)
  ELSE 0

\* the highlight and click loops
RECURSIVE SvcTextActions(_, _, _, _)
SvcTextActions(raw, type, name, from) ==
  IF from > Len(raw) THEN <<>>
  ELSE IF SvcTextTagClose(raw, type, from) = 0 THEN SvcTextActions(raw, type, name, from + 1)
  ELSE LET j == SvcTextTagClose(raw, type, from) IN
       <<[type |-> name, data |-> [text |-> Trim(SubSeq(raw, from + 2, j - 1))]]>>
         \o SvcTextActions(raw, type, name, j + 1)

\* atoms that hold a colon
SvcColonAtoms ==
  {":", TagOpen, "scroll_to_section:", "scroll_page:", "fill_input:", "highlight:",
   "click:", "fill:", KeyField, KeySelector, KeyValue}

\* ([^:]+) from position i: the position of the first atom holding a colon
RECURSIVE SvcSkipNoColon(_, _)
SvcSkipNoColon(raw, i) ==
  IF i <= Len(raw) /\ raw[i] \notin SvcColonAtoms THEN SvcSkipNoColon(raw, i + 1) ELSE i

\* /\[ACTION:fill:([^:]+):(.+?)\]/ tried at i: 0, or the position of the "]"
SvcFillClose(raw, i) ==
  LET k == SvcSkipNoColon(raw, i + 2) IN
  IF /\ i + 5 <= Len(raw)
     /\ raw[i] = TagOpen
     /\ raw[i + 1] = "fill:"
     /\ k > i + 2
     /\ k + 2 <= Len(raw)
     /\ raw[k] = ":"
     /\ raw[k + 1] # "\n"
  THEN SvcLazyClose(raw, k + 2)
  ELSE 0

RECURSIVE SvcFillActions(_, _)
SvcFillActions(raw, from) ==
  IF from > Len(raw) THEN <<>>
  ELSE IF SvcFillClose(raw, from) = 0 THEN SvcFillActions(raw, from + 1)
  ELSE LET k == SvcSkipNoColon(raw, from + 2)
           j == SvcFillClose(raw, from)
       IN <<[type |-> "fill",
             data |-> [selector |-> Trim(SubSeq(raw, from + 2, k - 1)),
                       value |-> Trim(SubSeq(raw, k + 1, j - 1))]]>>
            \o SvcFillActions(raw, j + 1)

\* the value the service's processMessage returns after the model answered:
\* the tags are removed first, and the four patterns run on what is left
SvcResult(rawText) ==
  LET responseText == StripTags(rawText, 1) IN
  [text |-> Trim(responseText),
   actions |-> SvcSectionActions(responseText, 1)
                 \o SvcTextActions(responseText, "highlight:", "highlight", 1)
                 \o SvcTextActions(responseText, "click:", "click", 1)
                 \o SvcFillActions(responseText, 1)]

\* error.message?.includes(k)
Includes(message, k) == \E i \in 1..Len(message) : message[i] = k

\* the service's catch block
SvcErrorResult(error) ==
  LET m == error.message IN
  [text |->
     <<"I apologize, but I encountered an error. ">> \o
     (IF Includes(m, "API_KEY") THEN <<"API key configuration issue.">>
      ELSE IF Includes(m, "quota") \/ Includes(m, "429")
      THEN <<"API quota exceeded. Please try again later.">>
      ELSE IF Includes(m, "403") \/ Includes(m, "permission")
      THEN <<"API access denied. Please verify API permissions.">>
      ELSE IF Includes(m, "network") \/ Includes(m, "fetch")
      THEN <<"Network error. Please check your internet connection.">>
      ELSE <<"Error details: ">> \o (IF m # <<>> THEN m ELSE <<"Unknown error">>) \o <<".">>),
   actions |-> <<>>]

\* ------------------------------------------------- the model's replies
\* A reply is a sequence of segments: plain text and tags.  RenderSegment is
\* the text of a segment as the model writes it.
TextSeg(atoms) == [kind |-> "text", arg |-> "", field |-> "", selector |-> "", value |-> atoms]
SectionSeg(id) == [kind |-> "section", arg |-> id, field |-> "", selector |-> "", value |-> <<>>]
PageSeg(dir) == [kind |-> "page", arg |-> dir, field |-> "", selector |-> "", value |-> <<>>]
OtherSeg(type, a) == [kind |-> "other", arg |-> a, field |-> type, selector |-> "", value |-> <<>>]
FillSeg(f, sel, v) == [kind |-> "fill", arg |-> "", field |-> f, selector |-> sel, value |-> v]
\* a fill_input tag whose payload is cut short: {"field":"name}
BrokenFillSeg == [kind |-> "broken", arg |-> "", field |-> "name", selector |-> "", value |-> <<>>]

JsonMember(key, str) == <<key, Quote>> \o str \o <<Quote>>

RenderPayload(seg) ==
  <<"{">>
    \o (IF seg.selector # "" THEN JsonMember(KeySelector, <<seg.selector>>) \o <<",">> ELSE <<>>)
    \o (IF seg.field # "" THEN JsonMember(KeyField, <<seg.field>>) \o <<",">> ELSE <<>>)
    \o JsonMember(KeyValue, seg.value)
    \o <<"}">>

RenderSegment(seg) ==
  CASE seg.kind = "text" -> seg.value
    [] seg.kind = "section" -> <<TagOpen, "scroll_to_section:", seg.arg, TagClose>>
    [] seg.kind = "page" -> <<TagOpen, "scroll_page:", seg.arg, TagClose>>
    [] seg.kind = "other" -> <<TagOpen, seg.field, seg.arg, TagClose>>
    [] seg.kind = "fill" -> <<TagOpen, "fill_input:">> \o RenderPayload(seg) \o <<TagClose>>
    [] OTHER -> <<TagOpen, "fill_input:", "{", KeyField, Quote, seg.field, "}", TagClose>>

RenderReply(segs) == SeqConcat([i \in 1..Len(segs) |-> RenderSegment(segs[i])])

ReplySegments ==
  {TextSeg(<<"Sure", " ">>),
   SectionSeg("projects"), SectionSeg("unknown_id"),
   PageSeg("Down"), PageSeg("sideways"),
   OtherSeg("highlight:", "React"),
   FillSeg("NAME", "", <<"Bob">>),
   FillSeg("email", "", <<"a", "]", "b">>),
   FillSeg("name", "#n", <<"Al">>),
   FillSeg("Password", "#pw", <<"x">>),
   FillSeg("Password", "", <<"x">>),
   FillSeg("name", "", <<"x", "}", "]", "y">>),
   BrokenFillSeg}

Replies == SeqsUpTo(ReplySegments, MaxReplySegs)

SvcReplies == SeqsUpTo(ReplySegments, MaxSvcReplySegs)

HistoryReplies == {<<TextSeg(<<"Sure", " ">>), SectionSeg("projects")>>}

HistoryErrors == {[message |-> <<"boom">>]}

\* what the provider's failure carries: error.message, <<>> when it has none
ProviderErrors ==
  {[message |-> m] :
     m \in {<<"API_KEY", " not valid">>, <<"429", " quota">>, <<"403", " permission">>,
            <<"fetch", " failed: ", "network">>, <<"boom">>, <<>>}}

\* ------------------------------------------------- the calls
NoPage == [present |-> FALSE, sections |-> <<>>, projects |-> 0, searchExists |-> FALSE]
Portfolio ==
  [present |-> TRUE, sections |-> <<"home", "projects">>, projects |-> 2, searchExists |-> TRUE]

Turns(roles) == [i \in 1..Len(roles) |-> [role |-> roles[i], content |-> i]]

Call(um, hist, page, flashThrows) ==
  [userMessage |-> um, conversationHistory |-> hist, pageContent |-> page,
   flashThrows |-> flashThrows]

SetNameTo == <<"set", " ", "name", " ", "to", " ">>
FillEmailAs == <<"FILL", " ", "EMAIL", " ", "field", " ", "=", " ">>

UserPieces == {SetNameTo, FillEmailAs, <<"A", " ">>, <<"B">>, <<",">>, <<" ">>, <<":">>}

UserMessages ==
  {SeqConcat(ps) : ps \in SeqsUpTo(UserPieces, MaxUserPieces)}

MainCalls ==
  {Call(<<"hi">>, <<>>, NoPage, TRUE),
   Call(SetNameTo \o <<"A">>,
        Turns(<<"assistant", "user", "user", "assistant">>), Portfolio, FALSE),
   Call(FillEmailAs \o <<"B", ",", " ">> \o SetNameTo \o <<"A">>,
        Turns(<<"user", "assistant">>), Portfolio, FALSE)}

SvcCalls ==
  {Call(<<"hi">>, <<>>, NoPage, TRUE),
   Call(SetNameTo \o <<"A">>, Turns(<<"user", "assistant">>), Portfolio, FALSE)}

HistoryCalls ==
  {Call(<<"hi">>, Turns(roles), NoPage, FALSE) :
     roles \in SeqsUpTo({"user", "assistant"}, MaxHistory)}

ParseCalls == {Call(um, <<>>, NoPage, FALSE) : um \in UserMessages}

\* ------------------------------------------------- state
VARIABLES
  pc,                   \* "idle", "awaiting" (the request is out), "done"
  callee,               \* which processMessage runs: "part_000" or "service"
  userMessage, conversationHistory, pageContent,   \* its arguments
  requests,             \* the requests sent to the model by this invocation
  reply,                \* the segments of the model's answer
  rawText,              \* response.text()
  modelActions,         \* part_000: actions, before the merge
  parsed,               \* part_000: what parseFillFromUser returned
  forcedFills,          \* part_000: forcedFills
  outcome,              \* "none", "ok" (the try block returned), "error" (the catch did)
  result,               \* the value returned
  returned              \* how many values this invocation returned

vars ==
  <<pc, callee, userMessage, conversationHistory, pageContent, requests, reply, rawText,
    modelActions, parsed, forcedFills, outcome, result, returned>>

NoResult == [text |-> <<>>, actions |-> <<>>]

Init ==
  /\ pc = "idle"
  /\ callee = "none"
  /\ userMessage = <<>>
  /\ conversationHistory = <<>>
  /\ pageContent = NoPage
  /\ requests = <<>>
  /\ reply = <<>>
  /\ rawText = <<>>
  /\ modelActions = <<>>
  /\ parsed = <<>>
  /\ forcedFills = <<>>
  /\ outcome = "none"
  /\ result = NoResult
  /\ returned = 0

\* processMessage of part_000 up to `await chat.sendMessage(systemPrompt)`,
\* for one of the calls
Invoke(calls) ==
  /\ pc = "idle"
  /\ \E call \in calls :
       /\ userMessage' = call.userMessage
       /\ conversationHistory' = call.conversationHistory
       /\ pageContent' = call.pageContent
       /\ requests' = Append(requests,
                             [model |-> getModel(call.flashThrows),
                              history |-> BuildHistory(call.conversationHistory),
                              prompt |-> SystemPrompt(call.userMessage, call.pageContent)])
  /\ pc' = "awaiting"
  /\ callee' = "part_000"
  /\ UNCHANGED <<reply, rawText, modelActions, parsed, forcedFills, outcome, result, returned>>

\* the model answered with one of the replies: the rest of the try block
Respond(replies) ==
  /\ pc = "awaiting"
  /\ callee = "part_000"
  /\ \E segs \in replies :
       /\ reply' = segs
       /\ rawText' = RenderReply(segs)
  /\ modelActions' = ModelActions(rawText')
  /\ parsed' = parseFillFromUser(userMessage)
  /\ forcedFills' = ForcedFills(parsed')
  /\ result' = [text |-> DisplayText(rawText', forcedFills'),
                actions |-> MergeForced(modelActions', forcedFills')]
  /\ returned' = returned + 1
  /\ outcome' = "ok"
  /\ pc' = "done"
  /\ UNCHANGED <<callee, userMessage, conversationHistory, pageContent, requests>>

\* faulty variant: the failed request is sent again
FailAndRetry(errors) ==
  /\ pc = "awaiting"
  /\ callee = "part_000"
  /\ Len(requests) < 2
  /\ requests' = Append(requests, requests[1])
  /\ UNCHANGED <<pc, callee, userMessage, conversationHistory, pageContent, reply, rawText,
                 modelActions, parsed, forcedFills, outcome, result, returned>>

\* the model call failed with one of the errors: the catch block
Fail(errors) ==
  /\ pc = "awaiting"
  /\ callee = "part_000"
  /\ \E error \in errors : result' = ErrorResult(error)
  /\ returned' = returned + 1
  /\ outcome' = "error"
  /\ pc' = "done"
  /\ UNCHANGED <<callee, userMessage, conversationHistory, pageContent, requests, reply,
                 rawText, modelActions, parsed, forcedFills>>

\* processMessage of services/geminiService.js up to the sendMessage call
SvcInvoke(calls) ==
  /\ pc = "idle"
  /\ \E call \in calls :
       /\ userMessage' = call.userMessage
       /\ conversationHistory' = call.conversationHistory
       /\ pageContent' = call.pageContent
       /\ requests' = Append(requests,
                             [model |-> getModel(call.flashThrows),
                              history |-> BuildHistory(call.conversationHistory),
                              prompt |-> SvcSystemPrompt(call.userMessage, call.pageContent)])
  /\ pc' = "awaiting"
  /\ callee' = "service"
  /\ UNCHANGED <<reply, rawText, modelActions, parsed, forcedFills, outcome, result, returned>>

\* the model answered the service: the rest of its try block
SvcRespond(replies) ==
  /\ pc = "awaiting"
  /\ callee = "service"
  /\ \E segs \in replies :
       /\ reply' = segs
       /\ rawText' = RenderReply(segs)
  /\ result' = SvcResult(rawText')
  /\ returned' = returned + 1
  /\ outcome' = "ok"
  /\ pc' = "done"
  /\ UNCHANGED <<callee, userMessage, conversationHistory, pageContent, requests,
                 modelActions, parsed, forcedFills>>

\* the service's model call failed: its catch block
SvcFail(errors) ==
  /\ pc = "awaiting"
  /\ callee = "service"
  /\ \E error \in errors : result' = SvcErrorResult(error)
  /\ returned' = returned + 1
  /\ outcome' = "error"
  /\ pc' = "done"
  /\ UNCHANGED <<callee, userMessage, conversationHistory, pageContent, requests, reply,
                 rawText, modelActions, parsed, forcedFills>>

\* the caller has the Result (res.json(response)); the next call starts afresh
Return ==
  /\ pc = "done"
  /\ pc' = "idle"
  /\ callee' = "none"
  /\ userMessage' = <<>>
  /\ conversationHistory' = <<>>
  /\ pageContent' = NoPage
  /\ requests' = <<>>
  /\ reply' = <<>>
  /\ rawText' = <<>>
  /\ modelActions' = <<>>
  /\ parsed' = <<>>
  /\ forcedFills' = <<>>
  /\ outcome' = "none"
  /\ result' = NoResult
  /\ returned' = 0

Next ==
  \/ Invoke(MainCalls)
  \/ Respond(Replies)
  \/ Fail(ProviderErrors)
  \/ SvcInvoke(SvcCalls)
  \/ SvcRespond(SvcReplies)
  \/ SvcFail(ProviderErrors)
  \/ Return

Spec == Init /\ [][Next]_vars

\* the history normalizer of both files, on every log of up to MaxHistory turns
NextHistory ==
  \/ Invoke(HistoryCalls)
  \/ Respond(HistoryReplies)
  \/ Fail(HistoryErrors)
  \/ SvcInvoke(HistoryCalls)
  \/ SvcRespond(HistoryReplies)
  \/ SvcFail(HistoryErrors)
  \/ Return

SpecHistory == Init /\ [][NextHistory]_vars

\* parseFillFromUser on every user text of up to MaxUserPieces pieces
NextParse ==
  \/ Invoke(ParseCalls)
  \/ Respond(HistoryReplies)
  \/ Fail(HistoryErrors)
  \/ Return

SpecParse == Init /\ [][NextParse]_vars

\* ================================================================ claims
Done == pc = "done" /\ outcome = "ok"
DoneP0 == Done /\ callee = "part_000"

Range(seq) == {seq[i] : i \in 1..Len(seq)}

SectionNames == {"home", "about", "projects", "contact"}
DirectionNames == {"up", "down", "top", "bottom"}
FieldNames == {"name", "email", "message", "search"}

IsFieldFill(a) == a.type = "fill_input" /\ "field" \in DOMAIN a.data
IsSelectorFill(a) == a.type = "fill_input" /\ "selector" \in DOMAIN a.data

\* the fill_input actions of a list that name field f
FieldFillsFor(actions, f) ==
  SelectSeq(actions, LAMBDA a : IsFieldFill(a) /\ a.data.field = f)

ForcedAction(f) == [type |-> "fill_input", data |-> [field |-> f.field, value |-> f.value]]

\* ---------------------------------------------------------------- C1
\* C1: in part_000, a deterministic fill intent for field f is in the final
\* action list (once, with the user's value) exactly when the model-derived
\* actions hold no fill_input for field f; otherwise the fills of the final
\* list for f are the model-derived ones, unchanged.  When every fill_input
\* tag of the reply carries a selector, no intent is suppressed.
C1_MergeFillsGaps ==
  DoneP0 =>
    /\ \A k \in 1..Len(forcedFills) :
         LET f == forcedFills[k].field
             fromModel == FieldFillsFor(modelActions, f)
             final == FieldFillsFor(result.actions, f)
         IN IF fromModel = <<>>
            THEN final = <<ForcedAction(forcedFills[k])>>
            ELSE final = fromModel
    /\ (\A i \in 1..Len(reply) : reply[i].kind \in {"fill", "broken"} => reply[i].selector # "")
         => \A k \in 1..Len(forcedFills) : ForcedAction(forcedFills[k]) \in Range(result.actions)

\* one intent suppressed by a model fill of another value, one intent added,
\* and a selector-carrying model fill in the list
C1_Witness ==
  /\ DoneP0
  /\ \E k \in 1..Len(forcedFills) :
       /\ FieldFillsFor(modelActions, forcedFills[k].field) # <<>>
       /\ ForcedAction(forcedFills[k]) \notin Range(result.actions)
  /\ \E k \in 1..Len(forcedFills) : ForcedAction(forcedFills[k]) \in Range(result.actions)
  /\ \E a \in Range(modelActions) : IsSelectorFill(a)

\* ---------------------------------------------------------------- C2
\* C2: in part_000, when the extractor found at least one fill intent, the
\* returned text is "Done. Filled: " followed by the intents' fields in the
\* extractor's order, joined by ", ", followed by ".", whatever the model wrote.
C2_ConfirmationText ==
  (DoneP0 /\ Len(forcedFills) >= 1) =>
    LET n == Len(forcedFills) IN
    /\ Len(result.text) = 2 * n + 1
    /\ result.text[1] = "Done. Filled: "
    /\ result.text[2 * n + 1] = "."
    /\ \A k \in 1..n : <<result.text[2 * k]>> = forcedFills[k].field
    /\ \A k \in 1..(n - 1) : result.text[2 * k + 1] = ", "

\* two intents, both suppressed in the action list, and a model text
C2_Witness ==
  /\ DoneP0
  /\ Len(forcedFills) = 2
  /\ \A k \in 1..Len(forcedFills) : ForcedAction(forcedFills[k]) \notin Range(result.actions)
  /\ \E i \in 1..Len(reply) : reply[i].kind = "text"
  /\ result.text = <<"Done. Filled: ", "email", ", ", "name", ".">>

\* ---------------------------------------------------------------- C3
\* the atoms in which the phrase "Error:" occurs
ErrorPhraseAtoms == {"Error: "}

\* C3: whenever the model call fails, processMessage returns a Result with
\* no action and a text that contains "Error:".
C3_FailureResult ==
  (pc = "done" /\ outcome = "error") =>
    /\ returned = 1
    /\ result.actions = <<>>
    /\ \E i \in 1..Len(result.text) : result.text[i] \in ErrorPhraseAtoms

\* ---------------------------------------------------------------- C4
ValidAction(a) ==
  CASE a.type = "scroll_to_section" ->
         Len(a.data.sectionId) = 1 /\ a.data.sectionId[1] \in SectionNames
    [] a.type = "scroll_page" ->
         Len(a.data.direction) = 1 /\ a.data.direction[1] \in DirectionNames
    [] a.type = "fill_input" ->
         IsSelectorFill(a) \/ (Len(a.data.field) = 1 /\ a.data.field[1] \in FieldNames)
    [] OTHER -> FALSE

\* a tag whose id, direction or field is outside its allow-list, or whose
\* payload is malformed JSON
OutsideAllowList(seg) ==
  \/ seg.kind = "section" /\ ToLower(seg.arg) \notin SectionNames
  \/ seg.kind = "page" /\ ToLower(seg.arg) \notin DirectionNames
  \/ seg.kind = "fill" /\ ToLower(seg.field) \notin FieldNames
  \/ seg.kind = "broken"

\* the same, but a fill_input tag that carries a selector is not judged by its field
OutsideAllowListNoSelector(seg) ==
  \/ seg.kind = "section" /\ ToLower(seg.arg) \notin SectionNames
  \/ seg.kind = "page" /\ ToLower(seg.arg) \notin DirectionNames
  \/ seg.kind = "fill" /\ seg.selector = "" /\ ToLower(seg.field) \notin FieldNames
  \/ seg.kind = "broken"

ParsedKinds == {"section", "page", "fill", "broken"}

TagAction(seg) ==
  CASE seg.kind = "section" ->
         [type |-> "scroll_to_section", data |-> [sectionId |-> <<ToLower(seg.arg)>>]]
    [] seg.kind = "page" ->
         [type |-> "scroll_page", data |-> [direction |-> <<ToLower(seg.arg)>>]]
    [] OTHER ->
         [type |-> "fill_input", data |-> [field |-> <<ToLower(seg.field)>>, value |-> seg.value]]

AllowedTag(seg) ==
  \/ seg.kind = "section" /\ ToLower(seg.arg) \in SectionNames
  \/ seg.kind = "page" /\ ToLower(seg.arg) \in DirectionNames
  \/ seg.kind = "fill" /\ seg.selector = "" /\ ToLower(seg.field) \in FieldNames

\* C5: whenever the model call succeeds and the model's text holds a tag with
\* an allowed payload, the Result's actions hold the corresponding action,
\* its id, direction or field lowercased.
C5_AllowedTagEmitted ==
  Done => \A i \in 1..Len(reply) : AllowedTag(reply[i]) => TagAction(reply[i]) \in Range(result.actions)

\* ---------------------------------------------------------------- C6
LogRole(i) == IF conversationHistory[i].role = "assistant" THEN "model" ELSE "user"

\* the turns of the log that are in the window of the last six
LogWindow ==
  {i \in 1..Len(conversationHistory) : i > Len(conversationHistory) - 6}

MinOf(S) == CHOOSE m \in S : \A x \in S : m <= x

\* the turns that open a run of one role, from the first user turn of the window on
RunOpeners ==
  LET users == {i \in LogWindow : LogRole(i) = "user"} IN
  IF users = {} THEN {}
  ELSE {i \in LogWindow :
          i >= MinOf(users) /\ (i = MinOf(users) \/ LogRole(i) # LogRole(i - 1))}

\* C6: the history of the request is made of at most the last 6 turns, is
\* empty or starts with a user turn, never has two adjacent turns of one
\* role, and holds, in order, exactly the first turn of every run of
\* same-role turns (the contents are the turns' positions in the log).
C6_HistoryNormalized ==
  pc \in {"awaiting", "done"} =>
    LET h == requests[1].history IN
    /\ Len(h) <= 6
    /\ h = <<>> \/ h[1].role = "user"
    /\ \A k \in 1..(Len(h) - 1) : h[k].role # h[k + 1].role
    /\ \A k \in 1..(Len(h) - 1) : h[k].parts[1].text < h[k + 1].parts[1].text
    /\ {h[k].parts[1].text : k \in 1..Len(h)} = RunOpeners
    /\ \A k \in 1..Len(h) : h[k].role = LogRole(h[k].parts[1].text)

\* a log longer than the window, whose window starts with a model turn and
\* holds a run of three user turns followed by a model turn
C6_Witness ==
  /\ pc = "awaiting"
  /\ Len(conversationHistory) > 6
  /\ LogRole(MinOf(LogWindow)) = "model"
  /\ \E i \in LogWindow :
       /\ i + 3 \in LogWindow
       /\ LogRole(i) = "user" /\ LogRole(i + 1) = "user" /\ LogRole(i + 2) = "user"
       /\ LogRole(i + 3) = "model"
  /\ Len(requests[1].history) >= 2

\* ---------------------------------------------------------------- C7
UserText == Trim(userMessage)
UserHits == TriggerHits(UserText, 1)
HitsFor(f) == {i \in 1..Len(UserHits) : UserHits[i].field = <<f>>}
MaxOf(S) == CHOOSE m \in S : \A x \in S : m >= x
IntentsFor(f) == {k \in 1..Len(parsed) : parsed[k].field = <<f>>}

C7_WellFormed ==
  /\ \A k \in 1..Len(parsed) :
       /\ parsed[k].value # <<>>
       /\ Len(parsed[k].field) = 1 /\ parsed[k].field[1] \in FieldNames
  /\ \A j, k \in 1..Len(parsed) : parsed[j].field = parsed[k].field => j = k
  /\ (UserHits = <<>> => parsed = <<>>)

\* C7 as claimed: a field triggered more than once has exactly one
\* FillIntent, whose value is that of the last trigger for the field.
C7_LastTriggerWinsAsClaimed ==
  DoneP0 =>
    /\ C7_WellFormed
    /\ \A f \in FieldNames :
         Cardinality(HitsFor(f)) >= 2 =>
           /\ Cardinality(IntentsFor(f)) = 1
           /\ \A k \in IntentsFor(f) :
                parsed[k].value = HitValue(UserText, UserHits, MaxOf(HitsFor(f)))

\* C7, amended: triggers whose value is empty are discarded; a field has
\* exactly one FillIntent when some trigger for it has a non-empty value,
\* holding the value of the last such trigger, and none otherwise.
C7_LastValueWins ==
  DoneP0 =>
    /\ C7_WellFormed
    /\ \A f \in FieldNames :
         LET valued == {i \in HitsFor(f) : HitValue(UserText, UserHits, i) # <<>>} IN
         IF valued = {} THEN IntentsFor(f) = {}
         ELSE /\ Cardinality(IntentsFor(f)) = 1
              /\ \A k \in IntentsFor(f) :
                   parsed[k].value = HitValue(UserText, UserHits, MaxOf(valued))

\* a field triggered twice with two different values, the last one kept
C7_Witness ==
  /\ DoneP0
  /\ \E i, j \in HitsFor("name") :
       /\ i < j
       /\ j = MaxOf(HitsFor("name"))
       /\ HitValue(UserText, UserHits, i) # <<>>
       /\ HitValue(UserText, UserHits, j) # <<>>
       /\ HitValue(UserText, UserHits, i) # HitValue(UserText, UserHits, j)
       /\ \E k \in IntentsFor("name") : parsed[k].value = HitValue(UserText, UserHits, j)

\* ---------------------------------------------------------------- C8
\* the reply without its tags
RECURSIVE PlainText(_)
PlainText(segs) ==
  IF segs = <<>> THEN <<>>
  ELSE (IF Head(segs).kind = "text" THEN Head(segs).value ELSE <<>>) \o PlainText(Tail(segs))

\* C8: in part_000, when the model call succeeds and no fill intent is
\* detected, the returned text is the model's text without any of its tags,
\* trimmed.
C8_TagsStripped ==
  (DoneP0 /\ forcedFills = <<>>) => result.text = Trim(PlainText(reply))

HasBraceClose(v) == \E i \in 1..(Len(v) - 1) : v[i] = "}" /\ v[i + 1] = "]"

Accepted(seg) ==
  \/ seg.kind = "section" /\ ToLower(seg.arg) \in SectionNames
  \/ seg.kind = "page" /\ ToLower(seg.arg) \in DirectionNames
  \/ /\ seg.kind = "fill"
     /\ ~HasBraceClose(seg.value)
     /\ (seg.selector # "" \/ ToLower(seg.field) \in FieldNames)

AcceptedAction(seg) ==
  IF seg.kind = "fill" /\ seg.selector # ""
  THEN [type |-> "fill_input", data |-> [selector |-> <<seg.selector>>, value |-> seg.value]]
  ELSE TagAction(seg)

\* the accepted actions of one tag type, in the order of the text
RECURSIVE AcceptedOfKind(_, _)
AcceptedOfKind(segs, kind) ==
  IF segs = <<>> THEN <<>>
  ELSE (IF Head(segs).kind = kind /\ Accepted(Head(segs))
        THEN <<AcceptedAction(Head(segs))>> ELSE <<>>)
       \o AcceptedOfKind(Tail(segs), kind)

RECURSIVE AddedForced(_, _)
AddedForced(fills, modelFills) ==
  IF fills = <<>> THEN <<>>
  ELSE (IF FieldFillsFor(modelFills, Head(fills).field) = <<>>
        THEN <<ForcedAction(Head(fills))>> ELSE <<>>)
       \o AddedForced(Tail(fills), modelFills)

\* C10: the final action list is the accepted scroll_to_section actions in
\* text order, then the accepted scroll_page actions in text order, then the
\* accepted model-derived fill_input actions in text order, then the added
\* deterministic fills in detection order.
C10_ActionOrder ==
  DoneP0 =>
    result.actions =
      AcceptedOfKind(reply, "section") \o AcceptedOfKind(reply, "page")
        \o AcceptedOfKind(reply, "fill")
        \o AddedForced(forcedFills, AcceptedOfKind(reply, "fill"))

\* a fill tag before a page tag before a section tag, all accepted, and a
\* deterministic fill appended
C10_Witness ==
  /\ DoneP0
  /\ Len(reply) = 3
  /\ reply[1].kind = "fill" /\ reply[2].kind = "page" /\ reply[3].kind = "section"
  /\ \A i \in 1..3 : Accepted(reply[i])
  /\ Len(result.actions) = 4
  /\ result.actions[1].type = "scroll_to_section"
  /\ result.actions[4] = ForcedAction(forcedFills[Len(forcedFills)])

====
